---- MODULE Spec2Model ----
(***************************************************************************)
(* Differential testbench of a single-cycle RV32I core (sim/tb_top.cpp)    *)
(* against the reference model declared in sim/riscv_ref.h.                *)
(*                                                                         *)
(* A uint32_t is held as the two's-complement integer of the same 32 bits *)
(* (range -2^31 .. 2^31-1), so every word fits the model checker's integers and  *)
(* all arithmetic is done on 16-bit halves, modulo 2^32.                   *)
(***************************************************************************)
EXTENDS Integers, Sequences, FiniteSets, TLC

\* ------------------------------------------------------------------ bounds
MaxTests == 2
MaxCycles == 2
MaxSteps == 3

\* ------------------------------------------------------- program constants
MEM_SIZE == 4096
MEM_WORDS == 1024
NUM_REGS == 32
RESET_CYCLES == 5
NOP == 19

\* ---------------------------------------------------------- 32-bit words
Half == 256 * 256

Lo16(w) == w % Half

Hi16(w) == (w \div Half) % Half

MkWord(hi, lo) == IF hi >= 32768 THEN (hi - Half) * Half + lo ELSE hi * Half + lo

\* byte k (0 = least significant) of a word: (instr >> 8k) & 0xFF
ByteOf(w, k) ==
    CASE k = 0 -> w % 256
      [] k = 1 -> (w \div 256) % 256
      [] k = 2 -> (w \div Half) % 256
      [] k = 3 -> (w \div 16777216) % 256

\* the word whose little-endian bytes are b0 b1 b2 b3
WordOfBytes(b0, b1, b2, b3) == MkWord(b3 * 256 + b2, b1 * 256 + b0)


\* mutant: signed overflow saturates instead of wrapping
Add32_saturating(a, b) ==
    LET lo == Lo16(a) + Lo16(b)
        hi == Hi16(a) + Hi16(b) + (lo \div Half)
        r  == MkWord(hi % Half, lo % Half)
    IN  IF a >= 0 /\ b >= 0 /\ r < 0 THEN 2147483647
        ELSE IF a < 0 /\ b < 0 /\ r >= 0 THEN -2147483647 - 1
        ELSE r

Add32(a, b) ==
    LET lo == Lo16(a) + Lo16(b)
        hi == Hi16(a) + Hi16(b) + (lo \div Half)
    IN  MkWord(hi % Half, lo % Half)

Sub32(a, b) ==
    LET lo == Lo16(a) - Lo16(b)
        hi == Hi16(a) - Hi16(b) - (IF lo < 0 THEN 1 ELSE 0)
    IN  MkWord(hi % Half, lo % Half)

\* unsigned a < b
LtU(a, b) ==
    \/ Hi16(a) < Hi16(b)
    \/ Hi16(a) = Hi16(b) /\ Lo16(a) < Lo16(b)

RECURSIVE Bits16(_, _, _, _)
Bits16(op, a, b, n) ==
    IF n = 0 THEN 0
    ELSE LET x == a % 2
             y == b % 2
             r == CASE op = "and" -> IF x = 1 /\ y = 1 THEN 1 ELSE 0
                    [] op = "or"  -> IF x = 1 \/ y = 1 THEN 1 ELSE 0
                    [] op = "xor" -> IF x # y THEN 1 ELSE 0
         IN  r + 2 * Bits16(op, a \div 2, b \div 2, n - 1)

Bitwise32(op, a, b) ==
    MkWord(Bits16(op, Hi16(a), Hi16(b), 16), Bits16(op, Lo16(a), Lo16(b), 16))

\* a << s, a >> s (logical) and a >> s (arithmetic) for 0 <= s <= 31
Sll32(a, s) ==
    IF s >= 16
    THEN MkWord((Lo16(a) * 2 ^ (s - 16)) % Half, 0)
    ELSE MkWord((Hi16(a) * 2 ^ s + (Lo16(a) * 2 ^ s) \div Half) % Half,
                (Lo16(a) * 2 ^ s) % Half)

Srl32(a, s) ==
    IF s >= 16
    THEN MkWord(0, Hi16(a) \div 2 ^ (s - 16))
    ELSE MkWord(Hi16(a) \div 2 ^ s,
                (Lo16(a) \div 2 ^ s) + (Hi16(a) % 2 ^ s) * 2 ^ (16 - s))

Sra32(a, s) ==
    LET sh == IF Hi16(a) >= 32768 THEN Hi16(a) - Half ELSE Hi16(a)
    IN  IF s >= 16
        THEN MkWord(IF sh < 0 THEN Half - 1 ELSE 0, (sh \div 2 ^ (s - 16)) % Half)
        ELSE MkWord((sh \div 2 ^ s) % Half,
                    (Lo16(a) \div 2 ^ s) + (Hi16(a) % 2 ^ s) * 2 ^ (16 - s))

\* ------------------------------------------- RV32I decode and execute
Opcode(w) == Lo16(w) % 128

Rd(w) == (Lo16(w) \div 128) % 32

Funct3(w) == (Lo16(w) \div 4096) % 8

Rs1(w) == (Lo16(w) \div 32768) + 2 * (Hi16(w) % 16)

Rs2(w) == (Hi16(w) \div 16) % 32

Funct7(w) == Hi16(w) \div 512

SignExt(x, bits) == IF x >= 2 ^ (bits - 1) THEN x - 2 ^ bits ELSE x

ImmI(w) == SignExt(Hi16(w) \div 16, 12)

ImmS(w) == SignExt(Funct7(w) * 32 + Rd(w), 12)

ImmB(w) ==
    SignExt((Hi16(w) \div 32768) * 4096 + (Rd(w) % 2) * 2048
            + (Funct7(w) % 64) * 32 + (Rd(w) \div 2) * 2, 13)

ImmU(w) == MkWord(Hi16(w), Lo16(w) - (Lo16(w) % 4096))

ImmJ(w) ==
    SignExt((Hi16(w) \div 32768) * 1048576
            + ((Hi16(w) % 16) * 16 + (Lo16(w) \div 4096)) * 4096
            + ((Hi16(w) \div 16) % 2) * 2048
            + ((Hi16(w) \div 32) % 1024) * 2, 21)

\* register 0 reads as zero; writes to register 0 are discarded
RegRead(regs, r) == IF r = 0 THEN 0 ELSE regs[r]

RegWrite(regs, r, v) == IF r = 0 THEN regs ELSE [regs EXCEPT ![r] = v]

\* the ALU operation selected by funct3/funct7; isImm: register-immediate form
Alu(f3, f7, isImm, a, b) ==
    CASE f3 = 0 -> IF ~isImm /\ f7 = 32 THEN Sub32(a, b) ELSE Add32(a, b)
      [] f3 = 1 -> Sll32(a, Lo16(b) % 32)
      [] f3 = 2 -> IF a < b THEN 1 ELSE 0
      [] f3 = 3 -> IF LtU(a, b) THEN 1 ELSE 0
      [] f3 = 4 -> Bitwise32("xor", a, b)
      [] f3 = 5 -> IF f7 = 32 THEN Sra32(a, Lo16(b) % 32) ELSE Srl32(a, Lo16(b) % 32)
      [] f3 = 6 -> Bitwise32("or", a, b)
      [] f3 = 7 -> Bitwise32("and", a, b)

AluLegal(f3, f7, isImm) ==
    IF isImm
    THEN (f3 = 1 => f7 = 0) /\ (f3 = 5 => f7 \in {0, 32})
    ELSE \/ f7 = 0
         \/ f7 = 32 /\ f3 \in {0, 5}

BranchTaken(f3, a, b) ==
    CASE f3 = 0 -> a = b
      [] f3 = 1 -> a # b
      [] f3 = 4 -> a < b
      [] f3 = 5 -> ~(a < b)
      [] f3 = 6 -> LtU(a, b)
      [] f3 = 7 -> ~LtU(a, b)
      [] OTHER -> FALSE

NoStore == [a \in {} |-> 0]

Halt(pc, regs) == [pc |-> pc, regs |-> regs, halted |-> TRUE, st |-> NoStore]

Retire(pc, regs) == [pc |-> pc, regs |-> regs, halted |-> FALSE, st |-> NoStore]

\* width in bytes of a load/store selected by funct3
AccessWidth(f3) == CASE f3 % 4 = 0 -> 1 [] f3 % 4 = 1 -> 2 [] OTHER -> 4

\* an access of n bytes at address a lies inside a memory of cap bytes
InBounds(a, n, cap) == a >= 0 /\ a <= cap - n

LoadValue(f3, a, bytes) ==
    CASE f3 = 0 -> SignExt(bytes[a], 8)
      [] f3 = 1 -> SignExt(bytes[a] + 256 * bytes[a + 1], 16)
      [] f3 = 2 -> WordOfBytes(bytes[a], bytes[a + 1], bytes[a + 2], bytes[a + 3])
      [] f3 = 4 -> bytes[a]
      [] f3 = 5 -> bytes[a] + 256 * bytes[a + 1]

\* One instruction w at pc over regs; bytes is the bound memory of cap bytes,
\* a function of the byte address.  Result: the next pc, registers, halted flag and the bytes stored.
Exec(w, pc, regs, bytes, cap) ==
    LET op == Opcode(w)
        f3 == Funct3(w)
        f7 == Funct7(w)
        a  == RegRead(regs, Rs1(w))
        b  == RegRead(regs, Rs2(w))
        next == Add32(pc, 4)
    IN  CASE op = 19 ->
               IF AluLegal(f3, f7, TRUE)
               THEN Retire(next, RegWrite(regs, Rd(w), Alu(f3, f7, TRUE, a, ImmI(w))))
               ELSE Halt(pc, regs)
          [] op = 51 ->
               IF AluLegal(f3, f7, FALSE)
               THEN Retire(next, RegWrite(regs, Rd(w), Alu(f3, f7, FALSE, a, b)))
               ELSE Halt(pc, regs)
          [] op = 55 -> Retire(next, RegWrite(regs, Rd(w), ImmU(w)))
          [] op = 23 -> Retire(next, RegWrite(regs, Rd(w), Add32(pc, ImmU(w))))
          [] op = 111 -> Retire(Add32(pc, ImmJ(w)), RegWrite(regs, Rd(w), next))
          [] op = 103 ->
               IF f3 = 0
               THEN LET t == Add32(a, ImmI(w))
                    IN  Retire(MkWord(Hi16(t), Lo16(t) - (Lo16(t) % 2)),
                               RegWrite(regs, Rd(w), next))
               ELSE Halt(pc, regs)
          [] op = 99 ->
               IF f3 \in {0, 1, 4, 5, 6, 7}
               THEN Retire(IF BranchTaken(f3, a, b) THEN Add32(pc, ImmB(w)) ELSE next, regs)
               ELSE Halt(pc, regs)
          [] op = 3 ->
               LET ea == Add32(a, ImmI(w))
               IN  IF f3 \in {0, 1, 2, 4, 5} /\ InBounds(ea, AccessWidth(f3), cap)
                   THEN Retire(next, RegWrite(regs, Rd(w), LoadValue(f3, ea, bytes)))
                   ELSE Halt(pc, regs)
          [] op = 35 ->
               LET ea == Add32(a, ImmS(w))
                   n  == AccessWidth(f3)
               IN  IF f3 \in {0, 1, 2} /\ InBounds(ea, n, cap)
                   THEN [pc |-> next, regs |-> regs, halted |-> FALSE,
                         st |-> [x \in ea .. (ea + n - 1) |-> ByteOf(b, x - ea)]]
                   ELSE Halt(pc, regs)
          [] OTHER -> Halt(pc, regs)

\* ----------------------------------------------------------- test inputs
\* addi x1,x0,5 ; addi x2,x0,3 ; add x3,x1,x2 ; nop   (test "Simple Add")
ProgAdd == <<5243027, 3146003, 2130355, NOP>>

\* addi x1,x0,5
ProgShort == <<5243027>>

\* one word more than either store holds; the last word is addi x2,x0,3
ProgLong == [k \in 1 .. (MEM_WORDS + 1) |->
               IF k = 1 THEN 5243027 ELSE IF k = MEM_WORDS + 1 THEN 3146003 ELSE NOP]

Programs == {ProgAdd, ProgShort, ProgLong}

\* the five tests of main, in order, each with its cycle budget
test_add == <<5243027, 3146003, 2130355, 19>>

test_sub == <<10485907, 3146003, 1075872179, 19>>

test_logic == <<267387027, 251658515, 2126259, 2155059, 2146995, 19>>

test_imm == <<20971667, 10547475, 15786387, 19>>

test_shift == <<8388755, 2134291, 2150803, 19>>

MainTests == <<<<test_add, 4>>, <<test_sub, 4>>, <<test_logic, 6>>, <<test_imm, 4>>,
               <<test_shift, 4>>>>

\* programs that end in the halt pattern (ecall) or in an illegal word (0)
ProgEcall == <<115>>

ProgIllegal == <<5243027, 0>>

HaltPrograms == {ProgEcall, ProgIllegal}

Budgets == 0 .. MaxCycles

\* outcomes of one rising-edge evaluation of the hardware under test:
\* it retires the fetched instruction, or it holds its state for the cycle
HwFaults == {"none", "stall"}

\* ------------------------------------------------------------------ state
VARIABLES
    rtl_clk, rtl_rst, rtl_pc, rtl_regs, rtl_dmem, rtl_imem,  \* Vcpu_top
    ref, ref_mem,                                            \* RiscvCpu and its buffer
    sim_time, tests_passed, tests_failed, cycles_run,        \* Testbench counters
    pc, caller, program, cycles, i, reset_i, all_match,      \* control and locals
    num_tests, tests_started, exit_status, suite,            \* main and its test list
    mismatches, reported_cycle, log, oob, query_result,      \* output and history
    rounds_total

rtl_vars == <<rtl_clk, rtl_rst, rtl_pc, rtl_regs, rtl_dmem, rtl_imem>>

ref_vars == <<ref, ref_mem>>

counter_vars == <<sim_time, tests_passed, tests_failed, cycles_run>>

local_vars == <<caller, program, cycles, i, reset_i, all_match>>

main_vars == <<num_tests, tests_started, exit_status, suite>>

out_vars == <<mismatches, reported_cycle, oob, query_result, rounds_total>>

vars == <<rtl_vars, ref_vars, counter_vars, pc, local_vars, main_vars, out_vars, log>>

Ev(name, a, b) == <<name, a, b>>

ZeroRegs == [r \in 0 .. (NUM_REGS - 1) |-> 0]

ZeroWords == [k \in 0 .. (MEM_WORDS - 1) |-> 0]

\* the buffer as the constructor leaves it: every word the NOP, little-endian
NopImage == [a \in 0 .. (MEM_SIZE - 1) |-> ByteOf(NOP, a % 4)]

\* riscv_init: the all-zero architectural state bound to the buffer
riscv_init == [pc |-> 0, regs |-> ZeroRegs, halted |-> FALSE]

\* the word held by the reference buffer at word index k
RefWord(mem, k) == WordOfBytes(mem[4 * k], mem[4 * k + 1], mem[4 * k + 2], mem[4 * k + 3])

\* mutant: a halted model still advances its PC
riscv_step_advance(cpu, mem) ==
    IF cpu.halted THEN [cpu |-> [cpu EXCEPT !.pc = Add32(cpu.pc, 4)], mem |-> mem]
    ELSE IF ~InBounds(cpu.pc, 4, MEM_SIZE)
         THEN [cpu |-> [cpu EXCEPT !.halted = TRUE], mem |-> mem]
         ELSE LET w == WordOfBytes(mem[cpu.pc], mem[cpu.pc + 1],
                                   mem[cpu.pc + 2], mem[cpu.pc + 3])
                  r == Exec(w, cpu.pc, cpu.regs, mem, MEM_SIZE)
              IN  [cpu |-> [pc |-> r.pc, regs |-> r.regs, halted |-> r.halted],
                   mem |-> IF r.st = NoStore THEN mem
                           ELSE [a \in 0 .. (MEM_SIZE - 1) |->
                                   IF a \in DOMAIN r.st THEN r.st[a] ELSE mem[a]]]

\* riscv_step: a halted model stays as it is; otherwise fetch at pc and execute
riscv_step(cpu, mem) ==
    IF cpu.halted THEN [cpu |-> cpu, mem |-> mem]
    ELSE IF ~InBounds(cpu.pc, 4, MEM_SIZE)
         THEN [cpu |-> [cpu EXCEPT !.halted = TRUE], mem |-> mem]
         ELSE LET w == WordOfBytes(mem[cpu.pc], mem[cpu.pc + 1],
                                   mem[cpu.pc + 2], mem[cpu.pc + 3])
                  r == Exec(w, cpu.pc, cpu.regs, mem, MEM_SIZE)
              IN  [cpu |-> [pc |-> r.pc, regs |-> r.regs, halted |-> r.halted],
                   mem |-> IF r.st = NoStore THEN mem
                           ELSE [a \in 0 .. (MEM_SIZE - 1) |->
                                   IF a \in DOMAIN r.st THEN r.st[a] ELSE mem[a]]]


\* riscv_set_reg: a write to register 0 is discarded
riscv_set_reg(cpu, reg, value) == [cpu EXCEPT !.regs = RegWrite(cpu.regs, reg, value)]

riscv_get_pc(cpu) == cpu.pc

riscv_get_reg(cpu, reg) == RegRead(cpu.regs, reg)

\* ---------------------------------------------------- the hardware model
DmemByte(dmem, a) == ByteOf(dmem[a \div 4], a % 4)

DmemStore(dmem, st) ==
    IF st = NoStore THEN dmem
    ELSE LET B(a) == IF a \in DOMAIN st THEN st[a] ELSE DmemByte(dmem, a)
         IN  [k \in 0 .. (MEM_WORDS - 1) |->
                IF \E j \in 0 .. 3 : (4 * k + j) \in DOMAIN st
                THEN WordOfBytes(B(4 * k), B(4 * k + 1), B(4 * k + 2), B(4 * k + 3))
                ELSE dmem[k]]

\* what the single-cycle core does at a rising clock edge
RtlRetire(hpc, regs, dmem, imem) ==
    Exec(imem[(Lo16(hpc) \div 4) % MEM_WORDS], hpc, regs,
         [a \in 0 .. (4 * MEM_WORDS - 1) |-> DmemByte(dmem, a)], 4 * MEM_WORDS)

\* rtl->eval() after the clock input went from oldclk to clk
RtlEval(oldclk, clk, fault) ==
    IF ~(oldclk = 0 /\ clk = 1) \/ (rtl_rst = 0 /\ fault = "stall")
    THEN UNCHANGED <<rtl_pc, rtl_regs, rtl_dmem>>
    ELSE LET r == RtlRetire(rtl_pc, rtl_regs, rtl_dmem, rtl_imem)
         IN  /\ rtl_pc' = IF rtl_rst = 1 THEN 0 ELSE r.pc
             /\ rtl_regs' = r.regs
             /\ rtl_dmem' = DmemStore(rtl_dmem, r.st)


\* mutant: the byte bound tested inclusively
RefCopyCond_inclusive(k, n) == k < n /\ k * 4 <= MEM_SIZE

\* ------------------------------------------------------------- Testbench
\* loop conditions of loadProgram, for index k of a program of n words
RefCopyCond(k, n) == k < n /\ k * 4 < MEM_SIZE

ImemCopyCond(k, n) == k < n /\ k < MEM_WORDS

ImemFillCond(k, n) == k >= n /\ k < MEM_WORDS

\* mutant: the reference bytes written most significant first
LoadRef_bigendian(mem, p) ==
    [a \in 0 .. (MEM_SIZE - 1) |->
       IF RefCopyCond(a \div 4, Len(p)) THEN ByteOf(p[(a \div 4) + 1], 3 - (a % 4)) ELSE mem[a]]

\* loadProgram, reference side: the words copied little-endian, the rest left alone
LoadRef(mem, p) ==
    [a \in 0 .. (MEM_SIZE - 1) |->
       IF RefCopyCond(a \div 4, Len(p)) THEN ByteOf(p[(a \div 4) + 1], a % 4) ELSE mem[a]]

\* loadProgram, hardware side: the words copied, the rest filled with NOPs
LoadImem(imem, p) ==
    [k \in 0 .. (MEM_WORDS - 1) |->
       IF ImemCopyCond(k, Len(p)) THEN p[k + 1]
       ELSE IF ImemFillCond(k, Len(p)) THEN NOP ELSE imem[k]]

\* the places loadProgram writes beyond the end of either store
LoadOob(p) ==
    {<<"ref_mem", a>> : a \in {x \in MEM_SIZE .. (4 * Len(p) + 3) :
                                 RefCopyCond(x \div 4, Len(p))}}
    \cup {<<"imem", k>> : k \in {x \in MEM_WORDS .. (Len(p) - 1) :
                                  ImemCopyCond(x, Len(p)) \/ ImemFillCond(x, Len(p))}}


\* mutant: the view reads storage element 0 like any other
getRtlReg_raw(regs, reg) == regs[reg]

getRtlReg(regs, reg) == IF reg = 0 THEN 0 ELSE regs[reg]

getRtlPc == rtl_pc


\* mutant: the comparison returns at the first differing field
CompareState_stopfirst(hpc, hregs, cpu) ==
    IF hpc # riscv_get_pc(cpu)
    THEN {[field |-> "pc", reg |-> 0, rtl |-> hpc, ref |-> riscv_get_pc(cpu)]}
    ELSE LET d == {x \in 1 .. (NUM_REGS - 1) : getRtlReg(hregs, x) # riscv_get_reg(cpu, x)}
         IN  {[field |-> "x", reg |-> r, rtl |-> getRtlReg(hregs, r), ref |-> riscv_get_reg(cpu, r)] :
                r \in {x \in d : \A y \in d : x <= y}}

\* compareState: one record per differing field, the PC first, then x1..x31
CompareState(hpc, hregs, cpu) ==
    (IF hpc # riscv_get_pc(cpu)
     THEN {[field |-> "pc", reg |-> 0, rtl |-> hpc, ref |-> riscv_get_pc(cpu)]} ELSE {})
    \cup {[field |-> "x", reg |-> r, rtl |-> getRtlReg(hregs, r), ref |-> riscv_get_reg(cpu, r)] :
            r \in {x \in 1 .. (NUM_REGS - 1) : getRtlReg(hregs, x) # riscv_get_reg(cpu, x)}}

Init ==
    /\ rtl_clk = 0 /\ rtl_rst = 0 /\ rtl_pc = 0
    /\ rtl_regs = ZeroRegs /\ rtl_dmem = ZeroWords /\ rtl_imem = ZeroWords
    /\ ref_mem = NopImage /\ ref = riscv_init
    /\ sim_time = 0 /\ tests_passed = 0 /\ tests_failed = 0 /\ cycles_run = 0
    /\ pc = "main" /\ caller = "none" /\ program = <<>> /\ cycles = 0
    /\ i = 0 /\ reset_i = 0 /\ all_match = TRUE
    /\ num_tests \in 1 .. MaxTests /\ tests_started = 0 /\ exit_status = -1
    /\ suite = "any"
    /\ mismatches = {} /\ reported_cycle = -1 /\ log = <<>> /\ oob = {}
    /\ query_result = <<"none", 0, 0>> /\ rounds_total = 0

\* the (program, budget) pairs the next runTest call may be given
TestInputs ==
    CASE suite = "main" -> {MainTests[tests_started + 1]}
      [] suite = "halt" -> HaltPrograms \X Budgets
      [] OTHER -> Programs \X Budgets

\* runTest up to the end of loadProgram
RunTestBegin ==
    /\ pc = "main" /\ tests_started < num_tests
    /\ \E t \in TestInputs :
         /\ program' = t[1] /\ cycles' = t[2]
         /\ ref_mem' = LoadRef(ref_mem, t[1])
         /\ rtl_imem' = LoadImem(rtl_imem, t[1])
         /\ oob' = oob \cup LoadOob(t[1])
    /\ tests_started' = tests_started + 1
    /\ log' = <<Ev("load", cycles_run, 0)>>
    /\ pc' = "reset"
    /\ UNCHANGED <<rtl_clk, rtl_rst, rtl_pc, rtl_regs, rtl_dmem, ref, counter_vars,
                   caller, i, reset_i, all_match, num_tests, exit_status, suite,
                   mismatches, reported_cycle, query_result, rounds_total>>


\* mutant: reset() also restarts the cycle counter
ResetAssert_zerocount ==
    /\ pc = "reset"
    /\ rtl_rst' = 1 /\ reset_i' = 0
    /\ cycles_run' = 0
    /\ log' = Append(log, Ev("rst", 1, 0))
    /\ pc' = "reset_loop"
    /\ UNCHANGED <<rtl_clk, rtl_pc, rtl_regs, rtl_dmem, rtl_imem, ref_vars, sim_time,
                   tests_passed, tests_failed,
                   caller, program, cycles, i, all_match, main_vars, out_vars>>

ResetAssert ==
    /\ pc = "reset"
    /\ rtl_rst' = 1 /\ reset_i' = 0
    /\ log' = Append(log, Ev("rst", 1, 0))
    /\ pc' = "reset_loop"
    /\ UNCHANGED <<rtl_clk, rtl_pc, rtl_regs, rtl_dmem, rtl_imem, ref_vars, counter_vars,
                   caller, program, cycles, i, all_match, main_vars, out_vars>>

ResetLoop ==
    /\ pc = "reset_loop"
    /\ IF reset_i < RESET_CYCLES
       THEN pc' = "tick_hi" /\ caller' = "reset"
       ELSE pc' = "reset_deassert" /\ caller' = caller
    /\ UNCHANGED <<rtl_vars, ref_vars, counter_vars, program, cycles, i, reset_i,
                   all_match, main_vars, out_vars, log>>

\* tick, rising edge
TickRise ==
    /\ pc = "tick_hi"
    /\ rtl_clk' = 1
    /\ \E f \in HwFaults : RtlEval(rtl_clk, 1, f)
    /\ sim_time' = sim_time + 1
    /\ log' = Append(log, Ev("eval", rtl_clk', rtl_rst))
    /\ pc' = "tick_lo"
    /\ UNCHANGED <<rtl_rst, rtl_imem, ref_vars, tests_passed, tests_failed, cycles_run,
                   local_vars, main_vars, out_vars>>


\* mutant: stepAndCompare without the reference step
TickFall_skipstep ==
    /\ pc = "tick_lo"
    /\ rtl_clk' = 0
    /\ RtlEval(rtl_clk, 0, "none")
    /\ sim_time' = sim_time + 1
    /\ cycles_run' = cycles_run + 1
    /\ log' = Append(log, Ev("eval", rtl_clk', rtl_rst))
    /\ pc' = IF caller = "reset" THEN "reset_inc" ELSE "compare"
    /\ UNCHANGED <<rtl_rst, rtl_imem, ref_vars, tests_passed, tests_failed,
                   local_vars, main_vars, out_vars>>


\* mutant: the cycle counter counts the rounds only, not the reset cycles
TickFall_roundsonly ==
    /\ pc = "tick_lo"
    /\ rtl_clk' = 0
    /\ RtlEval(rtl_clk, 0, "none")
    /\ sim_time' = sim_time + 1
    /\ cycles_run' = IF caller = "reset" THEN cycles_run ELSE cycles_run + 1
    /\ log' = Append(log, Ev("eval", rtl_clk', rtl_rst))
    /\ pc' = IF caller = "reset" THEN "reset_inc" ELSE "ref_step"
    /\ UNCHANGED <<rtl_rst, rtl_imem, ref_vars, tests_passed, tests_failed,
                   local_vars, main_vars, out_vars>>

\* tick, falling edge and the cycle count
TickFall ==
    /\ pc = "tick_lo"
    /\ rtl_clk' = 0
    /\ RtlEval(rtl_clk, 0, "none")
    /\ sim_time' = sim_time + 1
    /\ cycles_run' = cycles_run + 1
    /\ log' = Append(log, Ev("eval", rtl_clk', rtl_rst))
    /\ pc' = IF caller = "reset" THEN "reset_inc" ELSE "ref_step"
    /\ UNCHANGED <<rtl_rst, rtl_imem, ref_vars, tests_passed, tests_failed,
                   local_vars, main_vars, out_vars>>

ResetInc ==
    /\ pc = "reset_inc"
    /\ reset_i' = reset_i + 1
    /\ pc' = "reset_loop"
    /\ UNCHANGED <<rtl_vars, ref_vars, counter_vars, caller, program, cycles, i,
                   all_match, main_vars, out_vars, log>>


\* mutant: the reset input is never released
ResetDeassert_stuck ==
    /\ pc = "reset_deassert"
    /\ rtl_rst' = rtl_rst
    /\ log' = Append(log, Ev("rst", 0, 0))
    /\ pc' = "reset_clr_regs"
    /\ UNCHANGED <<rtl_clk, rtl_pc, rtl_regs, rtl_dmem, rtl_imem, ref_vars, counter_vars,
                   local_vars, main_vars, out_vars>>

ResetDeassert ==
    /\ pc = "reset_deassert"
    /\ rtl_rst' = 0
    /\ log' = Append(log, Ev("rst", 0, 0))
    /\ pc' = "reset_clr_regs"
    /\ UNCHANGED <<rtl_clk, rtl_pc, rtl_regs, rtl_dmem, rtl_imem, ref_vars, counter_vars,
                   local_vars, main_vars, out_vars>>

ResetClearRegs ==
    /\ pc = "reset_clr_regs"
    /\ rtl_regs' = [r \in 0 .. (NUM_REGS - 1) |-> 0]
    /\ log' = Append(log, Ev("clr_regs", 0, 0))
    /\ pc' = "reset_clr_dmem"
    /\ UNCHANGED <<rtl_clk, rtl_rst, rtl_pc, rtl_dmem, rtl_imem, ref_vars, counter_vars,
                   local_vars, main_vars, out_vars>>


\* mutant: the clearing loop of reset() run over the instruction store
ResetClearDmem_imem ==
    /\ pc = "reset_clr_dmem"
    /\ rtl_imem' = [k \in 0 .. (MEM_WORDS - 1) |-> 0]
    /\ log' = Append(log, Ev("clr_dmem", 0, 0))
    /\ pc' = "reset_ref_init"
    /\ UNCHANGED <<rtl_clk, rtl_rst, rtl_pc, rtl_regs, rtl_dmem, ref_vars, counter_vars,
                   local_vars, main_vars, out_vars>>

ResetClearDmem ==
    /\ pc = "reset_clr_dmem"
    /\ rtl_dmem' = [k \in 0 .. (MEM_WORDS - 1) |-> 0]
    /\ log' = Append(log, Ev("clr_dmem", 0, 0))
    /\ pc' = "reset_ref_init"
    /\ UNCHANGED <<rtl_clk, rtl_rst, rtl_pc, rtl_regs, rtl_imem, ref_vars, counter_vars,
                   local_vars, main_vars, out_vars>>


\* mutant: reset() without reinitializing the reference model
ResetRefInit_skip ==
    /\ pc = "reset_ref_init"
    /\ ref' = ref
    /\ log' = Append(log, Ev("ref_init", 0, 0))
    /\ pc' = "reset_done"
    /\ UNCHANGED <<rtl_vars, ref_mem, counter_vars, local_vars, main_vars, out_vars>>

ResetRefInit ==
    /\ pc = "reset_ref_init"
    /\ ref' = riscv_init
    /\ log' = Append(log, Ev("ref_init", 0, 0))
    /\ pc' = "reset_done"
    /\ UNCHANGED <<rtl_vars, ref_mem, counter_vars, local_vars, main_vars, out_vars>>

\* the value a step-free query returns
QueryValue(q, r) ==
    CASE q = "getRtlPc" -> getRtlPc
      [] q = "getRtlReg" -> getRtlReg(rtl_regs, r)
      [] q = "riscv_get_pc" -> riscv_get_pc(ref)
      [] q = "riscv_get_reg" -> riscv_get_reg(ref, r)
      [] q = "compareState" -> Cardinality(CompareState(rtl_pc, rtl_regs, ref))
      [] q = "printState" -> 0

Queries == {"getRtlPc", "getRtlReg", "riscv_get_pc", "riscv_get_reg", "compareState", "printState"}

QueryRegs == {0, 1, NUM_REGS - 1}

\* a query between reset() and the first round; it reads and writes nothing
Query ==
    /\ pc = "reset_done"
    /\ \E q \in Queries, r \in QueryRegs :
         /\ q \notin {"getRtlReg", "riscv_get_reg"} => r = 0
         /\ query_result' = <<q, r, QueryValue(q, r)>>
    /\ UNCHANGED <<rtl_vars, ref_vars, counter_vars, pc, local_vars, main_vars,
                   mismatches, reported_cycle, oob, log, rounds_total>>


RunLoopInit ==
    /\ pc = "reset_done"
    /\ all_match' = TRUE /\ i' = 0
    /\ query_result' = <<"none", 0, 0>>
    /\ pc' = "loop"
    /\ UNCHANGED <<rtl_vars, ref_vars, counter_vars, caller, program, cycles, reset_i,
                   main_vars, mismatches, reported_cycle, oob, log, rounds_total>>


\* mutant: the round loop runs one round too many
LoopHead_offbyone ==
    /\ pc = "loop"
    /\ IF i <= cycles
       THEN pc' = "tick_hi" /\ caller' = "round"
       ELSE pc' = "verdict" /\ caller' = caller
    /\ UNCHANGED <<rtl_vars, ref_vars, counter_vars, program, cycles, i, reset_i,
                   all_match, main_vars, out_vars, log>>

LoopHead ==
    /\ pc = "loop"
    /\ IF i < cycles
       THEN pc' = "tick_hi" /\ caller' = "round"
       ELSE pc' = "verdict" /\ caller' = caller
    /\ UNCHANGED <<rtl_vars, ref_vars, counter_vars, program, cycles, i, reset_i,
                   all_match, main_vars, out_vars, log>>

\* stepAndCompare, second half: one instruction of the reference model
RefStep ==
    /\ pc = "ref_step"
    /\ LET r == riscv_step(ref, ref_mem)
       IN  ref' = r.cpu /\ ref_mem' = r.mem
    /\ log' = Append(log, Ev("step", 0, 0))
    /\ pc' = "compare"
    /\ UNCHANGED <<rtl_vars, counter_vars, local_vars, main_vars, out_vars>>


\* mutant: the mismatch branch without its break
Compare_nobreak ==
    /\ pc = "compare"
    /\ mismatches' = CompareState(getRtlPc, rtl_regs, ref)
    /\ rounds_total' = rounds_total + 1
    /\ IF mismatches' = {}
       THEN /\ log' = Append(log, Ev("compare", i, 1))
            /\ UNCHANGED <<all_match, reported_cycle>>
       ELSE /\ reported_cycle' = i /\ all_match' = FALSE
            /\ log' = log \o <<Ev("compare", i, 0), Ev("dump", 0, 0)>>
    /\ i' = i + 1 /\ pc' = "loop"
    /\ UNCHANGED <<rtl_vars, ref_vars, counter_vars, caller, program, cycles, reset_i,
                   main_vars, oob, query_result>>

\* compareState and the mismatch branch of runTest's loop
Compare ==
    /\ pc = "compare"
    /\ mismatches' = CompareState(getRtlPc, rtl_regs, ref)
    /\ rounds_total' = rounds_total + 1
    /\ IF mismatches' = {}
       THEN /\ i' = i + 1 /\ pc' = "loop"
            /\ log' = Append(log, Ev("compare", i, 1))
            /\ UNCHANGED <<all_match, reported_cycle>>
       ELSE /\ reported_cycle' = i /\ all_match' = FALSE /\ pc' = "verdict"
            /\ log' = log \o <<Ev("compare", i, 0), Ev("dump", 0, 0)>>
            /\ i' = i
    /\ UNCHANGED <<rtl_vars, ref_vars, counter_vars, caller, program, cycles, reset_i,
                   main_vars, oob, query_result>>

Verdict ==
    /\ pc = "verdict"
    /\ IF all_match
       THEN /\ tests_passed' = tests_passed + 1 /\ tests_failed' = tests_failed
            /\ log' = Append(log, Ev("PASS", 0, 0))
       ELSE /\ tests_failed' = tests_failed + 1 /\ tests_passed' = tests_passed
            /\ log' = Append(log, Ev("FAIL", 0, 0))
    /\ pc' = "final_dump"
    /\ UNCHANGED <<rtl_vars, ref_vars, sim_time, cycles_run, local_vars, main_vars, out_vars>>


\* mutant: the closing dump only on the pass path
FinalDump_skipfail ==
    /\ pc = "final_dump"
    /\ log' = IF all_match THEN Append(log, Ev("dump", 0, 0)) ELSE log
    /\ pc' = "main"
    /\ UNCHANGED <<rtl_vars, ref_vars, counter_vars, local_vars, main_vars, out_vars>>

FinalDump ==
    /\ pc = "final_dump"
    /\ log' = Append(log, Ev("dump", 0, 0))
    /\ pc' = "main"
    /\ UNCHANGED <<rtl_vars, ref_vars, counter_vars, local_vars, main_vars, out_vars>>


\* mutant: main stops at the first failed test
MainSummary_early ==
    /\ pc = "main" /\ (tests_started = num_tests \/ tests_failed > 0)
    /\ exit_status' = IF tests_failed = 0 THEN 0 ELSE 1
    /\ pc' = "exited"
    /\ UNCHANGED <<rtl_vars, ref_vars, counter_vars, local_vars, num_tests, tests_started,
                   suite, out_vars, log>>

\* main after the last test: the summary and the exit status
MainSummary ==
    /\ pc = "main" /\ tests_started = num_tests
    /\ exit_status' = IF tests_failed = 0 THEN 0 ELSE 1
    /\ pc' = "exited"
    /\ UNCHANGED <<rtl_vars, ref_vars, counter_vars, local_vars, num_tests, tests_started,
                   suite, out_vars, log>>

Next ==
    \/ RunTestBegin
    \/ ResetAssert
    \/ ResetLoop
    \/ TickRise
    \/ TickFall
    \/ ResetInc
    \/ ResetDeassert
    \/ ResetClearRegs
    \/ ResetClearDmem
    \/ ResetRefInit
    \/ Query
    \/ RunLoopInit
    \/ LoopHead
    \/ RefStep
    \/ Compare
    \/ Verdict
    \/ FinalDump
    \/ MainSummary

Spec == Init /\ [][Next]_vars

\* ------------------------------------ the comparator on arbitrary state pairs
CmpPcs == {0, 4}

CmpVals == {0, 7}

\* both models in some state at the comparison of round 0: the PCs, hardware
\* storage elements 0, 1 and 31, reference registers 1 and 31, a data-memory
\* word and the reference image are drawn independently
InitCmp ==
    /\ rtl_clk = 0 /\ rtl_rst = 0 /\ rtl_pc \in CmpPcs
    /\ \E v0 \in CmpVals, v1 \in CmpVals, v31 \in CmpVals :
         rtl_regs = [ZeroRegs EXCEPT ![0] = v0, ![1] = v1, ![NUM_REGS - 1] = v31]
    /\ \E d \in CmpVals : rtl_dmem = [ZeroWords EXCEPT ![0] = d]
    /\ rtl_imem = LoadImem(ZeroWords, ProgAdd)
    /\ ref_mem \in {NopImage, LoadRef(NopImage, ProgAdd)}
    /\ \E p \in CmpPcs, w1 \in CmpVals, w31 \in CmpVals :
         ref = [pc |-> p, regs |-> [ZeroRegs EXCEPT ![1] = w1, ![NUM_REGS - 1] = w31],
                halted |-> FALSE]
    /\ sim_time = 0 /\ tests_passed = 0 /\ tests_failed = 0 /\ cycles_run = 0
    /\ pc = "compare" /\ caller = "round" /\ program = ProgAdd /\ cycles = 1
    /\ i = 0 /\ reset_i = RESET_CYCLES /\ all_match = TRUE
    /\ num_tests = 1 /\ tests_started = 1 /\ exit_status = -1 /\ suite = "any"
    /\ mismatches = {} /\ reported_cycle = -1 /\ log = <<>> /\ oob = {}
    /\ query_result = <<"none", 0, 0>> /\ rounds_total = 0

SpecCmp == InitCmp /\ [][Compare]_vars

\* ------------------------------------------------------ history helpers
EvIdx(name) == {k \in DOMAIN log : log[k][1] = name}

Count(name) == Cardinality(EvIdx(name))

\* the events of the current test that follow the end of reset()
RoundLog ==
    IF EvIdx("ref_init") = {} THEN <<>>
    ELSE SubSeq(log, (CHOOSE k \in EvIdx("ref_init") : TRUE) + 1, Len(log))

RoundEvals == Cardinality({k \in DOMAIN RoundLog : RoundLog[k][1] = "eval"})

RECURSIVE RefRun(_, _, _)
RefRun(cpu, mem, n) ==
    IF n = 0 THEN [cpu |-> cpu, mem |-> mem]
    ELSE LET r == riscv_step(cpu, mem) IN RefRun(r.cpu, r.mem, n - 1)

\* the current test has run to its verdict
TestOver == pc \in {"final_dump", "main", "exited"} /\ tests_started >= 1

\* ----------------------------------------------------------------- claims

\* C1: after loadProgram(p) with |p| < 1024, every word slot at index >= |p|
\* holds the NOP in the hardware instruction store and in the reference memory,
\* whatever was loaded before.
C1_PaddedBothTargets ==
    (pc = "reset" /\ Len(program) < MEM_WORDS) =>
        \A k \in Len(program) .. (MEM_WORDS - 1) :
            rtl_imem[k] = NOP /\ RefWord(ref_mem, k) = NOP

\* C2: the reference model's state after every round of a test depends only on
\* that test's program: it is the state reached from the zero state over the
\* image of that program alone, whatever tests ran before.
C2_TestsIndependent ==
    pc = "compare" =>
        ref = RefRun(riscv_init, LoadRef(NopImage, program), i + 1).cpu

\* C3: fail-fast.  When the comparison after round i is the first mismatch the
\* test has executed exactly i+1 rounds (ticks, reference steps, comparisons),
\* nothing more runs even when budget is left, the reported cycle is i, and the
\* test is counted as failed.
C3_AfterMismatch ==
    (pc \in {"verdict", "final_dump", "main", "exited"} /\ tests_started >= 1 /\ ~all_match) =>
        /\ reported_cycle = i
        /\ i < cycles
        /\ Count("compare") = i + 1
        /\ Count("step") = i + 1
        /\ RoundEvals = 2 * (i + 1)
        /\ \A k \in EvIdx("compare") : (log[k][3] = 0) <=> (log[k][2] = i)
        /\ pc # "verdict" => Count("FAIL") = 1 /\ Count("PASS") = 0

C3_CountedFailed ==
    (pc = "verdict" /\ ~all_match) =>
        (tests_failed' = tests_failed + 1 /\ tests_passed' = tests_passed)

C3_FailFast == [](C3_AfterMismatch) /\ [][C3_CountedFailed]_vars

C3_Witness == pc = "final_dump" /\ ~all_match /\ i + 1 < cycles

\* C4: a test is marked passed iff no comparison of rounds 0..cycleBudget-1
\* reported a mismatch, and then exactly cycleBudget rounds were executed; a
\* budget of 0 passes without any comparison.
C4_AfterVerdict ==
    TestOver =>
        /\ Count("PASS") + Count("FAIL") = 1
        /\ (Count("PASS") = 1) <=> (\A k \in EvIdx("compare") : log[k][3] = 1)
        /\ Count("PASS") = 1 =>
              /\ Count("compare") = cycles
              /\ Count("step") = cycles
              /\ RoundEvals = 2 * cycles
              /\ \A r \in 0 .. (cycles - 1) : \E k \in EvIdx("compare") : log[k][2] = r
        /\ cycles = 0 => (Count("PASS") = 1 /\ Count("compare") = 0)

C4_CountedPassed ==
    pc = "verdict" =>
        ((tests_passed' = tests_passed + 1 /\ tests_failed' = tests_failed)
            <=> (\A k \in EvIdx("compare") : log[k][3] = 1))

C4_PassIffNoMismatch == [](C4_AfterVerdict) /\ [][C4_CountedPassed]_vars

C4_Witness == pc = "final_dump" /\ all_match /\ cycles = MaxCycles /\ Count("compare") = cycles

\* C5: the comparator returns true iff the PCs are equal and hardware register r
\* equals reference register r for every r in 1..31; otherwise false with one
\* record per differing field.  Register 0 and the memories do not influence it
\* and it changes no state of either model.
C5_AfterCompare ==
    pc \in {"loop", "verdict"} =>
        LET pcDiff == rtl_pc # ref.pc
            regDiff == {r \in 1 .. (NUM_REGS - 1) : rtl_regs[r] # ref.regs[r]}
        IN  /\ (pc = "loop") <=> (~pcDiff /\ regDiff = {})
            /\ all_match <=> (~pcDiff /\ regDiff = {})
            /\ Cardinality(mismatches) = (IF pcDiff THEN 1 ELSE 0) + Cardinality(regDiff)
            /\ {m.reg : m \in {x \in mismatches : x.field = "x"}} = regDiff
            /\ pcDiff <=> (\E m \in mismatches : m.field = "pc")
            /\ \A m \in mismatches :
                 IF m.field = "pc" THEN m.rtl = rtl_pc /\ m.ref = ref.pc
                 ELSE m.rtl = rtl_regs[m.reg] /\ m.ref = ref.regs[m.reg]

C5_ReadOnly == pc = "compare" => UNCHANGED <<rtl_vars, ref_vars>>

C5_Comparator == [](C5_AfterCompare) /\ [][C5_ReadOnly]_vars

C5_Witness ==
    /\ pc = "verdict" /\ Cardinality(mismatches) = 3
    /\ rtl_regs[0] # 0 /\ rtl_dmem[0] # 0

\* C6: in every round the hardware is evaluated with the clock high, then with
\* the clock low, then the reference model steps once, then the states are
\* compared; between two comparisons each side advances by exactly that much.
C6_RoundOrder ==
    /\ \A k \in EvIdx("compare") :
         /\ k > 4
         /\ log[k - 4][1] \in {"ref_init", "compare"}
         /\ log[k - 3][1] = "eval" /\ log[k - 3][2] = 1
         /\ log[k - 2][1] = "eval" /\ log[k - 2][2] = 0
         /\ log[k - 1][1] = "step"
    /\ pc = "compare" =>
         /\ Len(RoundLog) = 4 * i + 3
         /\ RoundLog[4 * i + 1][1] = "eval" /\ RoundLog[4 * i + 1][2] = 1
         /\ RoundLog[4 * i + 2][1] = "eval" /\ RoundLog[4 * i + 2][2] = 0
         /\ RoundLog[4 * i + 3][1] = "step"

C6_Witness == pc = "compare" /\ i = 1

\* C7: after reset() and before any step the reference model reports PC 0, all
\* registers 0 and halted false, the hardware view reports every register and
\* every data-memory word as 0, and queries leave this as it is, whatever state
\* the models were in before.
C7_ResetState ==
    pc = "reset_done" =>
        /\ riscv_get_pc(ref) = 0
        /\ \A r \in 0 .. (NUM_REGS - 1) : riscv_get_reg(ref, r) = 0
        /\ ref.halted = FALSE
        /\ \A r \in 0 .. (NUM_REGS - 1) : getRtlReg(rtl_regs, r) = 0
        /\ \A k \in 0 .. (MEM_WORDS - 1) : rtl_dmem[k] = 0
        /\ query_result[1] \in {"riscv_get_pc", "riscv_get_reg", "getRtlReg"} =>
              query_result[3] = 0

C7_Witness ==
    /\ pc = "reset_done" /\ tests_failed >= 1
    /\ query_result[1] = "riscv_get_reg"

\* the events of reset(), in order
ResetEvents(n) ==
    <<Ev("rst", 1, 0)>>
    \o [k \in 1 .. (2 * n) |-> Ev("eval", k % 2, 1)]
    \o <<Ev("rst", 0, 0), Ev("clr_regs", 0, 0), Ev("clr_dmem", 0, 0), Ev("ref_init", 0, 0)>>

\* C8: reset() holds the reset input asserted for 5 complete clock cycles, then
\* de-asserts it, then force-clears the registers and the data memory, and
\* reinitializes the reference model last; the reset input is de-asserted in
\* every compared round.
C8_ResetProtocol ==
    /\ EvIdx("ref_init") # {} =>
         SubSeq(log, 2, 2 * RESET_CYCLES + 6) = ResetEvents(RESET_CYCLES)
    /\ \A k \in DOMAIN RoundLog : RoundLog[k][1] = "eval" => RoundLog[k][3] = 0
    /\ pc = "reset_ref_init" =>
         /\ \A r \in 0 .. (NUM_REGS - 1) : rtl_regs[r] = 0
         /\ \A k \in 0 .. (MEM_WORDS - 1) : rtl_dmem[k] = 0
         /\ rtl_rst = 0
    /\ (pc \in {"reset_done", "loop", "ref_step", "compare"}
          \/ (pc \in {"tick_hi", "tick_lo"} /\ caller = "round")) => rtl_rst = 0

C8_Witness == pc = "compare" /\ i = 1 /\ tests_started = 2

\* C9: loading a program of more than 1024 words stores exactly its first 1024
\* words in each target, writes nothing outside either store and produces no
\* error state.
C9_AfterLongLoad ==
    /\ oob = {}
    /\ (pc = "reset" /\ Len(program) > MEM_WORDS) =>
         \A k \in 0 .. (MEM_WORDS - 1) :
             rtl_imem[k] = program[k + 1] /\ RefWord(ref_mem, k) = program[k + 1]

C9_Silent ==
    (pc = "main" /\ pc' = "reset") =>
        UNCHANGED <<mismatches, reported_cycle, tests_failed, exit_status, all_match>>

C9_Truncation == [](C9_AfterLongLoad) /\ [][C9_Silent]_vars

C9_Witness == pc = "reset" /\ Len(program) > MEM_WORDS /\ tests_started = 2

\* C10: the exit status is 1 if at least one test was marked failed and 0
\* otherwise, and it is decided only after every listed test has run.
C10_ExitStatus ==
    /\ pc = "exited" =>
         /\ exit_status = (IF tests_failed >= 1 THEN 1 ELSE 0)
         /\ tests_started = num_tests
         /\ tests_passed + tests_failed = num_tests
    /\ pc # "exited" => exit_status = -1

C10_Witness == pc = "exited" /\ exit_status = 1 /\ tests_passed >= 1 /\ all_match

\* the number of runTest calls that have reached their verdict
TestsCompleted ==
    IF pc \in {"final_dump", "main", "exited"} THEN tests_started ELSE tests_started - 1

\* C11: the run-level counters are never reset or decreased; each completed
\* runTest increments exactly one of tests_passed and tests_failed by exactly 1,
\* so their sum is the number of completed tests.
C11_Sum == tests_passed + tests_failed = TestsCompleted

C11_Monotone ==
    /\ tests_passed' >= tests_passed
    /\ tests_failed' >= tests_failed
    /\ cycles_run' >= cycles_run

C11_OnePerTest ==
    IF pc = "verdict"
    THEN \/ tests_passed' = tests_passed + 1 /\ tests_failed' = tests_failed
         \/ tests_failed' = tests_failed + 1 /\ tests_passed' = tests_passed
    ELSE tests_passed' = tests_passed /\ tests_failed' = tests_failed

C11_Counters == [](C11_Sum) /\ [][C11_Monotone /\ C11_OnePerTest]_vars

C11_Witness == pc = "main" /\ tests_passed = 1 /\ tests_failed = 1 /\ cycles_run > 2 * RESET_CYCLES

\* ------------------------------- register 0 under steps and register writes
\* addi x1,x0,7 ; addi x0,x0,5 ; add x0,x1,x1
ProgZeroWrites == <<7340179, 5242899, 1081395>>

RegCallRegs == {0, 1, NUM_REGS - 1}

\* a reference model over ProgZeroWrites and a hardware register file whose
\* storage element 0 holds any value
InitReg ==
    /\ rtl_clk = 0 /\ rtl_rst = 0 /\ rtl_pc = 0
    /\ \E v0 \in CmpVals : rtl_regs = [ZeroRegs EXCEPT ![0] = v0]
    /\ rtl_dmem = ZeroWords /\ rtl_imem = LoadImem(ZeroWords, ProgZeroWrites)
    /\ ref_mem = LoadRef(NopImage, ProgZeroWrites) /\ ref = riscv_init
    /\ sim_time = 0 /\ tests_passed = 0 /\ tests_failed = 0 /\ cycles_run = 0
    /\ pc = "regs" /\ caller = "none" /\ program = ProgZeroWrites /\ cycles = 0
    /\ i = 0 /\ reset_i = 0 /\ all_match = TRUE
    /\ num_tests = 1 /\ tests_started = 1 /\ exit_status = -1 /\ suite = "any"
    /\ mismatches = {} /\ reported_cycle = -1 /\ log = <<>> /\ oob = {}
    /\ query_result = <<"none", 0, 0>> /\ rounds_total = 0

RegSetCall ==
    /\ pc = "regs"
    /\ \E r \in RegCallRegs, v \in CmpVals :
         /\ ref' = riscv_set_reg(ref, r, v)
         /\ query_result' = <<"riscv_set_reg", r, v>>
    /\ UNCHANGED <<rtl_vars, ref_mem, counter_vars, pc, local_vars, main_vars,
                   mismatches, reported_cycle, oob, log, rounds_total>>

RegStepCall ==
    /\ pc = "regs" /\ i < MaxSteps
    /\ LET r == riscv_step(ref, ref_mem)
       IN  ref' = r.cpu /\ ref_mem' = r.mem
    /\ i' = i + 1
    /\ query_result' = <<"riscv_step", 0, 0>>
    /\ UNCHANGED <<rtl_vars, counter_vars, pc, caller, program, cycles, reset_i, all_match,
                   main_vars, mismatches, reported_cycle, oob, log, rounds_total>>

RegGetCall ==
    /\ pc = "regs"
    /\ \E r \in RegCallRegs :
         \/ query_result' = <<"riscv_get_reg", r, riscv_get_reg(ref, r)>>
         \/ query_result' = <<"getRtlReg", r, getRtlReg(rtl_regs, r)>>
    /\ UNCHANGED <<rtl_vars, ref_vars, counter_vars, pc, local_vars, main_vars,
                   mismatches, reported_cycle, oob, log, rounds_total>>

NextReg == RegSetCall \/ RegStepCall \/ RegGetCall

SpecReg == InitReg /\ [][NextReg]_vars

\* C12: register 0 reads as zero after any sequence of step() and
\* setRegister(0, v) calls, a write to register 0 changes no other state, and
\* getRtlReg(0) returns 0 whatever the hardware's storage element 0 holds.
C12_ReadsZero ==
    /\ riscv_get_reg(ref, 0) = 0
    /\ ref.regs[0] = 0
    /\ getRtlReg(rtl_regs, 0) = 0
    /\ (query_result[1] \in {"riscv_get_reg", "getRtlReg"} /\ query_result[2] = 0) =>
          query_result[3] = 0

C12_WriteDiscarded ==
    (query_result'[1] = "riscv_set_reg" /\ query_result'[2] = 0) =>
        (ref' = ref /\ ref_mem' = ref_mem /\ rtl_regs' = rtl_regs)

C12_RegisterZero == [](C12_ReadsZero) /\ [][C12_WriteDiscarded]_vars

C12_Witness ==
    /\ rtl_regs[0] # 0 /\ i = MaxSteps /\ ref.regs[1] = 7
    /\ query_result = <<"getRtlReg", 0, 0>>

\* ------------------------------------------------ one ALU instruction, one step
\* the most negative register value, 0x80000000
MinInt == -2147483647 - 1

\* <<instruction, x1, x2, x3 after one step>>: add, sub, sll, slt, sltu, xor,
\* srl, sra, or, and with rd = x3, rs1 = x1, rs2 = x2 over the source values
\* 0, 5, 33, -1, 0x7FFFFFFF, 0x80000000, then addi, slti, sltiu, xori, ori,
\* andi with immediates -1, 5, -2048, 2047 and slli, srli, srai with shift
\* amounts 0, 1, 31; results are the operation's value modulo 2^32 written as
\* signed 32-bit numbers
AluCases == {
    <<2130355, 0, 0, 0>>, <<2130355, 0, 5, 5>>, <<2130355, 0, 33, 33>>,
    <<2130355, 0, -1, -1>>, <<2130355, 0, 2147483647, 2147483647>>, <<2130355, 0, MinInt, MinInt>>,
    <<2130355, 5, 0, 5>>, <<2130355, 5, 5, 10>>, <<2130355, 5, 33, 38>>,
    <<2130355, 5, -1, 4>>, <<2130355, 5, 2147483647, -2147483644>>, <<2130355, 5, MinInt, -2147483643>>,
    <<2130355, 33, 0, 33>>, <<2130355, 33, 5, 38>>, <<2130355, 33, 33, 66>>,
    <<2130355, 33, -1, 32>>, <<2130355, 33, 2147483647, -2147483616>>, <<2130355, 33, MinInt, -2147483615>>,
    <<2130355, -1, 0, -1>>, <<2130355, -1, 5, 4>>, <<2130355, -1, 33, 32>>,
    <<2130355, -1, -1, -2>>, <<2130355, -1, 2147483647, 2147483646>>, <<2130355, -1, MinInt, 2147483647>>,
    <<2130355, 2147483647, 0, 2147483647>>, <<2130355, 2147483647, 5, -2147483644>>, <<2130355, 2147483647, 33, -2147483616>>,
    <<2130355, 2147483647, -1, 2147483646>>, <<2130355, 2147483647, 2147483647, -2>>, <<2130355, 2147483647, MinInt, -1>>,
    <<2130355, MinInt, 0, MinInt>>, <<2130355, MinInt, 5, -2147483643>>, <<2130355, MinInt, 33, -2147483615>>,
    <<2130355, MinInt, -1, 2147483647>>, <<2130355, MinInt, 2147483647, -1>>, <<2130355, MinInt, MinInt, 0>>,
    <<1075872179, 0, 0, 0>>, <<1075872179, 0, 5, -5>>, <<1075872179, 0, 33, -33>>,
    <<1075872179, 0, -1, 1>>, <<1075872179, 0, 2147483647, -2147483647>>, <<1075872179, 0, MinInt, MinInt>>,
    <<1075872179, 5, 0, 5>>, <<1075872179, 5, 5, 0>>, <<1075872179, 5, 33, -28>>,
    <<1075872179, 5, -1, 6>>, <<1075872179, 5, 2147483647, -2147483642>>, <<1075872179, 5, MinInt, -2147483643>>,
    <<1075872179, 33, 0, 33>>, <<1075872179, 33, 5, 28>>, <<1075872179, 33, 33, 0>>,
    <<1075872179, 33, -1, 34>>, <<1075872179, 33, 2147483647, -2147483614>>, <<1075872179, 33, MinInt, -2147483615>>,
    <<1075872179, -1, 0, -1>>, <<1075872179, -1, 5, -6>>, <<1075872179, -1, 33, -34>>,
    <<1075872179, -1, -1, 0>>, <<1075872179, -1, 2147483647, MinInt>>, <<1075872179, -1, MinInt, 2147483647>>,
    <<1075872179, 2147483647, 0, 2147483647>>, <<1075872179, 2147483647, 5, 2147483642>>, <<1075872179, 2147483647, 33, 2147483614>>,
    <<1075872179, 2147483647, -1, MinInt>>, <<1075872179, 2147483647, 2147483647, 0>>, <<1075872179, 2147483647, MinInt, -1>>,
    <<1075872179, MinInt, 0, MinInt>>, <<1075872179, MinInt, 5, 2147483643>>, <<1075872179, MinInt, 33, 2147483615>>,
    <<1075872179, MinInt, -1, -2147483647>>, <<1075872179, MinInt, 2147483647, 1>>, <<1075872179, MinInt, MinInt, 0>>,
    <<2134451, 0, 0, 0>>, <<2134451, 0, 5, 0>>, <<2134451, 0, 33, 0>>,
    <<2134451, 0, -1, 0>>, <<2134451, 0, 2147483647, 0>>, <<2134451, 0, MinInt, 0>>,
    <<2134451, 5, 0, 5>>, <<2134451, 5, 5, 160>>, <<2134451, 5, 33, 10>>,
    <<2134451, 5, -1, MinInt>>, <<2134451, 5, 2147483647, MinInt>>, <<2134451, 5, MinInt, 5>>,
    <<2134451, 33, 0, 33>>, <<2134451, 33, 5, 1056>>, <<2134451, 33, 33, 66>>,
    <<2134451, 33, -1, MinInt>>, <<2134451, 33, 2147483647, MinInt>>, <<2134451, 33, MinInt, 33>>,
    <<2134451, -1, 0, -1>>, <<2134451, -1, 5, -32>>, <<2134451, -1, 33, -2>>,
    <<2134451, -1, -1, MinInt>>, <<2134451, -1, 2147483647, MinInt>>, <<2134451, -1, MinInt, -1>>,
    <<2134451, 2147483647, 0, 2147483647>>, <<2134451, 2147483647, 5, -32>>, <<2134451, 2147483647, 33, -2>>,
    <<2134451, 2147483647, -1, MinInt>>, <<2134451, 2147483647, 2147483647, MinInt>>, <<2134451, 2147483647, MinInt, 2147483647>>,
    <<2134451, MinInt, 0, MinInt>>, <<2134451, MinInt, 5, 0>>, <<2134451, MinInt, 33, 0>>,
    <<2134451, MinInt, -1, 0>>, <<2134451, MinInt, 2147483647, 0>>, <<2134451, MinInt, MinInt, MinInt>>,
    <<2138547, 0, 0, 0>>, <<2138547, 0, 5, 1>>, <<2138547, 0, 33, 1>>,
    <<2138547, 0, -1, 0>>, <<2138547, 0, 2147483647, 1>>, <<2138547, 0, MinInt, 0>>,
    <<2138547, 5, 0, 0>>, <<2138547, 5, 5, 0>>, <<2138547, 5, 33, 1>>,
    <<2138547, 5, -1, 0>>, <<2138547, 5, 2147483647, 1>>, <<2138547, 5, MinInt, 0>>,
    <<2138547, 33, 0, 0>>, <<2138547, 33, 5, 0>>, <<2138547, 33, 33, 0>>,
    <<2138547, 33, -1, 0>>, <<2138547, 33, 2147483647, 1>>, <<2138547, 33, MinInt, 0>>,
    <<2138547, -1, 0, 1>>, <<2138547, -1, 5, 1>>, <<2138547, -1, 33, 1>>,
    <<2138547, -1, -1, 0>>, <<2138547, -1, 2147483647, 1>>, <<2138547, -1, MinInt, 0>>,
    <<2138547, 2147483647, 0, 0>>, <<2138547, 2147483647, 5, 0>>, <<2138547, 2147483647, 33, 0>>,
    <<2138547, 2147483647, -1, 0>>, <<2138547, 2147483647, 2147483647, 0>>, <<2138547, 2147483647, MinInt, 0>>,
    <<2138547, MinInt, 0, 1>>, <<2138547, MinInt, 5, 1>>, <<2138547, MinInt, 33, 1>>,
    <<2138547, MinInt, -1, 1>>, <<2138547, MinInt, 2147483647, 1>>, <<2138547, MinInt, MinInt, 0>>,
    <<2142643, 0, 0, 0>>, <<2142643, 0, 5, 1>>, <<2142643, 0, 33, 1>>,
    <<2142643, 0, -1, 1>>, <<2142643, 0, 2147483647, 1>>, <<2142643, 0, MinInt, 1>>,
    <<2142643, 5, 0, 0>>, <<2142643, 5, 5, 0>>, <<2142643, 5, 33, 1>>,
    <<2142643, 5, -1, 1>>, <<2142643, 5, 2147483647, 1>>, <<2142643, 5, MinInt, 1>>,
    <<2142643, 33, 0, 0>>, <<2142643, 33, 5, 0>>, <<2142643, 33, 33, 0>>,
    <<2142643, 33, -1, 1>>, <<2142643, 33, 2147483647, 1>>, <<2142643, 33, MinInt, 1>>,
    <<2142643, -1, 0, 0>>, <<2142643, -1, 5, 0>>, <<2142643, -1, 33, 0>>,
    <<2142643, -1, -1, 0>>, <<2142643, -1, 2147483647, 0>>, <<2142643, -1, MinInt, 0>>,
    <<2142643, 2147483647, 0, 0>>, <<2142643, 2147483647, 5, 0>>, <<2142643, 2147483647, 33, 0>>,
    <<2142643, 2147483647, -1, 1>>, <<2142643, 2147483647, 2147483647, 0>>, <<2142643, 2147483647, MinInt, 1>>,
    <<2142643, MinInt, 0, 0>>, <<2142643, MinInt, 5, 0>>, <<2142643, MinInt, 33, 0>>,
    <<2142643, MinInt, -1, 1>>, <<2142643, MinInt, 2147483647, 0>>, <<2142643, MinInt, MinInt, 0>>,
    <<2146739, 0, 0, 0>>, <<2146739, 0, 5, 5>>, <<2146739, 0, 33, 33>>,
    <<2146739, 0, -1, -1>>, <<2146739, 0, 2147483647, 2147483647>>, <<2146739, 0, MinInt, MinInt>>,
    <<2146739, 5, 0, 5>>, <<2146739, 5, 5, 0>>, <<2146739, 5, 33, 36>>,
    <<2146739, 5, -1, -6>>, <<2146739, 5, 2147483647, 2147483642>>, <<2146739, 5, MinInt, -2147483643>>,
    <<2146739, 33, 0, 33>>, <<2146739, 33, 5, 36>>, <<2146739, 33, 33, 0>>,
    <<2146739, 33, -1, -34>>, <<2146739, 33, 2147483647, 2147483614>>, <<2146739, 33, MinInt, -2147483615>>,
    <<2146739, -1, 0, -1>>, <<2146739, -1, 5, -6>>, <<2146739, -1, 33, -34>>,
    <<2146739, -1, -1, 0>>, <<2146739, -1, 2147483647, MinInt>>, <<2146739, -1, MinInt, 2147483647>>,
    <<2146739, 2147483647, 0, 2147483647>>, <<2146739, 2147483647, 5, 2147483642>>, <<2146739, 2147483647, 33, 2147483614>>,
    <<2146739, 2147483647, -1, MinInt>>, <<2146739, 2147483647, 2147483647, 0>>, <<2146739, 2147483647, MinInt, -1>>,
    <<2146739, MinInt, 0, MinInt>>, <<2146739, MinInt, 5, -2147483643>>, <<2146739, MinInt, 33, -2147483615>>,
    <<2146739, MinInt, -1, 2147483647>>, <<2146739, MinInt, 2147483647, -1>>, <<2146739, MinInt, MinInt, 0>>,
    <<2150835, 0, 0, 0>>, <<2150835, 0, 5, 0>>, <<2150835, 0, 33, 0>>,
    <<2150835, 0, -1, 0>>, <<2150835, 0, 2147483647, 0>>, <<2150835, 0, MinInt, 0>>,
    <<2150835, 5, 0, 5>>, <<2150835, 5, 5, 0>>, <<2150835, 5, 33, 2>>,
    <<2150835, 5, -1, 0>>, <<2150835, 5, 2147483647, 0>>, <<2150835, 5, MinInt, 5>>,
    <<2150835, 33, 0, 33>>, <<2150835, 33, 5, 1>>, <<2150835, 33, 33, 16>>,
    <<2150835, 33, -1, 0>>, <<2150835, 33, 2147483647, 0>>, <<2150835, 33, MinInt, 33>>,
    <<2150835, -1, 0, -1>>, <<2150835, -1, 5, 134217727>>, <<2150835, -1, 33, 2147483647>>,
    <<2150835, -1, -1, 1>>, <<2150835, -1, 2147483647, 1>>, <<2150835, -1, MinInt, -1>>,
    <<2150835, 2147483647, 0, 2147483647>>, <<2150835, 2147483647, 5, 67108863>>, <<2150835, 2147483647, 33, 1073741823>>,
    <<2150835, 2147483647, -1, 0>>, <<2150835, 2147483647, 2147483647, 0>>, <<2150835, 2147483647, MinInt, 2147483647>>,
    <<2150835, MinInt, 0, MinInt>>, <<2150835, MinInt, 5, 67108864>>, <<2150835, MinInt, 33, 1073741824>>,
    <<2150835, MinInt, -1, 1>>, <<2150835, MinInt, 2147483647, 1>>, <<2150835, MinInt, MinInt, MinInt>>,
    <<1075892659, 0, 0, 0>>, <<1075892659, 0, 5, 0>>, <<1075892659, 0, 33, 0>>,
    <<1075892659, 0, -1, 0>>, <<1075892659, 0, 2147483647, 0>>, <<1075892659, 0, MinInt, 0>>,
    <<1075892659, 5, 0, 5>>, <<1075892659, 5, 5, 0>>, <<1075892659, 5, 33, 2>>,
    <<1075892659, 5, -1, 0>>, <<1075892659, 5, 2147483647, 0>>, <<1075892659, 5, MinInt, 5>>,
    <<1075892659, 33, 0, 33>>, <<1075892659, 33, 5, 1>>, <<1075892659, 33, 33, 16>>,
    <<1075892659, 33, -1, 0>>, <<1075892659, 33, 2147483647, 0>>, <<1075892659, 33, MinInt, 33>>,
    <<1075892659, -1, 0, -1>>, <<1075892659, -1, 5, -1>>, <<1075892659, -1, 33, -1>>,
    <<1075892659, -1, -1, -1>>, <<1075892659, -1, 2147483647, -1>>, <<1075892659, -1, MinInt, -1>>,
    <<1075892659, 2147483647, 0, 2147483647>>, <<1075892659, 2147483647, 5, 67108863>>, <<1075892659, 2147483647, 33, 1073741823>>,
    <<1075892659, 2147483647, -1, 0>>, <<1075892659, 2147483647, 2147483647, 0>>, <<1075892659, 2147483647, MinInt, 2147483647>>,
    <<1075892659, MinInt, 0, MinInt>>, <<1075892659, MinInt, 5, -67108864>>, <<1075892659, MinInt, 33, -1073741824>>,
    <<1075892659, MinInt, -1, -1>>, <<1075892659, MinInt, 2147483647, -1>>, <<1075892659, MinInt, MinInt, MinInt>>,
    <<2154931, 0, 0, 0>>, <<2154931, 0, 5, 5>>, <<2154931, 0, 33, 33>>,
    <<2154931, 0, -1, -1>>, <<2154931, 0, 2147483647, 2147483647>>, <<2154931, 0, MinInt, MinInt>>,
    <<2154931, 5, 0, 5>>, <<2154931, 5, 5, 5>>, <<2154931, 5, 33, 37>>,
    <<2154931, 5, -1, -1>>, <<2154931, 5, 2147483647, 2147483647>>, <<2154931, 5, MinInt, -2147483643>>,
    <<2154931, 33, 0, 33>>, <<2154931, 33, 5, 37>>, <<2154931, 33, 33, 33>>,
    <<2154931, 33, -1, -1>>, <<2154931, 33, 2147483647, 2147483647>>, <<2154931, 33, MinInt, -2147483615>>,
    <<2154931, -1, 0, -1>>, <<2154931, -1, 5, -1>>, <<2154931, -1, 33, -1>>,
    <<2154931, -1, -1, -1>>, <<2154931, -1, 2147483647, -1>>, <<2154931, -1, MinInt, -1>>,
    <<2154931, 2147483647, 0, 2147483647>>, <<2154931, 2147483647, 5, 2147483647>>, <<2154931, 2147483647, 33, 2147483647>>,
    <<2154931, 2147483647, -1, -1>>, <<2154931, 2147483647, 2147483647, 2147483647>>, <<2154931, 2147483647, MinInt, -1>>,
    <<2154931, MinInt, 0, MinInt>>, <<2154931, MinInt, 5, -2147483643>>, <<2154931, MinInt, 33, -2147483615>>,
    <<2154931, MinInt, -1, -1>>, <<2154931, MinInt, 2147483647, -1>>, <<2154931, MinInt, MinInt, MinInt>>,
    <<2159027, 0, 0, 0>>, <<2159027, 0, 5, 0>>, <<2159027, 0, 33, 0>>,
    <<2159027, 0, -1, 0>>, <<2159027, 0, 2147483647, 0>>, <<2159027, 0, MinInt, 0>>,
    <<2159027, 5, 0, 0>>, <<2159027, 5, 5, 5>>, <<2159027, 5, 33, 1>>,
    <<2159027, 5, -1, 5>>, <<2159027, 5, 2147483647, 5>>, <<2159027, 5, MinInt, 0>>,
    <<2159027, 33, 0, 0>>, <<2159027, 33, 5, 1>>, <<2159027, 33, 33, 33>>,
    <<2159027, 33, -1, 33>>, <<2159027, 33, 2147483647, 33>>, <<2159027, 33, MinInt, 0>>,
    <<2159027, -1, 0, 0>>, <<2159027, -1, 5, 5>>, <<2159027, -1, 33, 33>>,
    <<2159027, -1, -1, -1>>, <<2159027, -1, 2147483647, 2147483647>>, <<2159027, -1, MinInt, MinInt>>,
    <<2159027, 2147483647, 0, 0>>, <<2159027, 2147483647, 5, 5>>, <<2159027, 2147483647, 33, 33>>,
    <<2159027, 2147483647, -1, 2147483647>>, <<2159027, 2147483647, 2147483647, 2147483647>>, <<2159027, 2147483647, MinInt, 0>>,
    <<2159027, MinInt, 0, 0>>, <<2159027, MinInt, 5, 0>>, <<2159027, MinInt, 33, 0>>,
    <<2159027, MinInt, -1, MinInt>>, <<2159027, MinInt, 2147483647, 0>>, <<2159027, MinInt, MinInt, MinInt>>,
    <<-1015405, 0, 0, -1>>, <<-1015405, 5, 0, 4>>, <<-1015405, 33, 0, 32>>,
    <<-1015405, -1, 0, -2>>, <<-1015405, 2147483647, 0, 2147483646>>, <<-1015405, MinInt, 0, 2147483647>>,
    <<5276051, 0, 0, 5>>, <<5276051, 5, 0, 10>>, <<5276051, 33, 0, 38>>,
    <<5276051, -1, 0, 4>>, <<5276051, 2147483647, 0, -2147483644>>, <<5276051, MinInt, 0, -2147483643>>,
    <<-2147450477, 0, 0, -2048>>, <<-2147450477, 5, 0, -2043>>, <<-2147450477, 33, 0, -2015>>,
    <<-2147450477, -1, 0, -2049>>, <<-2147450477, 2147483647, 0, 2147481599>>, <<-2147450477, MinInt, 0, 2147481600>>,
    <<2146468243, 0, 0, 2047>>, <<2146468243, 5, 0, 2052>>, <<2146468243, 33, 0, 2080>>,
    <<2146468243, -1, 0, 2046>>, <<2146468243, 2147483647, 0, -2147481602>>, <<2146468243, MinInt, 0, -2147481601>>,
    <<-1007213, 0, 0, 0>>, <<-1007213, 5, 0, 0>>, <<-1007213, 33, 0, 0>>,
    <<-1007213, -1, 0, 0>>, <<-1007213, 2147483647, 0, 0>>, <<-1007213, MinInt, 0, 1>>,
    <<5284243, 0, 0, 1>>, <<5284243, 5, 0, 0>>, <<5284243, 33, 0, 0>>,
    <<5284243, -1, 0, 1>>, <<5284243, 2147483647, 0, 0>>, <<5284243, MinInt, 0, 1>>,
    <<-2147442285, 0, 0, 0>>, <<-2147442285, 5, 0, 0>>, <<-2147442285, 33, 0, 0>>,
    <<-2147442285, -1, 0, 0>>, <<-2147442285, 2147483647, 0, 0>>, <<-2147442285, MinInt, 0, 1>>,
    <<2146476435, 0, 0, 1>>, <<2146476435, 5, 0, 1>>, <<2146476435, 33, 0, 1>>,
    <<2146476435, -1, 0, 1>>, <<2146476435, 2147483647, 0, 0>>, <<2146476435, MinInt, 0, 1>>,
    <<-1003117, 0, 0, 1>>, <<-1003117, 5, 0, 1>>, <<-1003117, 33, 0, 1>>,
    <<-1003117, -1, 0, 0>>, <<-1003117, 2147483647, 0, 1>>, <<-1003117, MinInt, 0, 1>>,
    <<5288339, 0, 0, 1>>, <<5288339, 5, 0, 0>>, <<5288339, 33, 0, 0>>,
    <<5288339, -1, 0, 0>>, <<5288339, 2147483647, 0, 0>>, <<5288339, MinInt, 0, 0>>,
    <<-2147438189, 0, 0, 1>>, <<-2147438189, 5, 0, 1>>, <<-2147438189, 33, 0, 1>>,
    <<-2147438189, -1, 0, 0>>, <<-2147438189, 2147483647, 0, 1>>, <<-2147438189, MinInt, 0, 1>>,
    <<2146480531, 0, 0, 1>>, <<2146480531, 5, 0, 1>>, <<2146480531, 33, 0, 1>>,
    <<2146480531, -1, 0, 0>>, <<2146480531, 2147483647, 0, 0>>, <<2146480531, MinInt, 0, 0>>,
    <<-999021, 0, 0, -1>>, <<-999021, 5, 0, -6>>, <<-999021, 33, 0, -34>>,
    <<-999021, -1, 0, 0>>, <<-999021, 2147483647, 0, MinInt>>, <<-999021, MinInt, 0, 2147483647>>,
    <<5292435, 0, 0, 5>>, <<5292435, 5, 0, 0>>, <<5292435, 33, 0, 36>>,
    <<5292435, -1, 0, -6>>, <<5292435, 2147483647, 0, 2147483642>>, <<5292435, MinInt, 0, -2147483643>>,
    <<-2147434093, 0, 0, -2048>>, <<-2147434093, 5, 0, -2043>>, <<-2147434093, 33, 0, -2015>>,
    <<-2147434093, -1, 0, 2047>>, <<-2147434093, 2147483647, 0, -2147481601>>, <<-2147434093, MinInt, 0, 2147481600>>,
    <<2146484627, 0, 0, 2047>>, <<2146484627, 5, 0, 2042>>, <<2146484627, 33, 0, 2014>>,
    <<2146484627, -1, 0, -2048>>, <<2146484627, 2147483647, 0, 2147481600>>, <<2146484627, MinInt, 0, -2147481601>>,
    <<-990829, 0, 0, -1>>, <<-990829, 5, 0, -1>>, <<-990829, 33, 0, -1>>,
    <<-990829, -1, 0, -1>>, <<-990829, 2147483647, 0, -1>>, <<-990829, MinInt, 0, -1>>,
    <<5300627, 0, 0, 5>>, <<5300627, 5, 0, 5>>, <<5300627, 33, 0, 37>>,
    <<5300627, -1, 0, -1>>, <<5300627, 2147483647, 0, 2147483647>>, <<5300627, MinInt, 0, -2147483643>>,
    <<-2147425901, 0, 0, -2048>>, <<-2147425901, 5, 0, -2043>>, <<-2147425901, 33, 0, -2015>>,
    <<-2147425901, -1, 0, -1>>, <<-2147425901, 2147483647, 0, -1>>, <<-2147425901, MinInt, 0, -2048>>,
    <<2146492819, 0, 0, 2047>>, <<2146492819, 5, 0, 2047>>, <<2146492819, 33, 0, 2047>>,
    <<2146492819, -1, 0, -1>>, <<2146492819, 2147483647, 0, 2147483647>>, <<2146492819, MinInt, 0, -2147481601>>,
    <<-986733, 0, 0, 0>>, <<-986733, 5, 0, 5>>, <<-986733, 33, 0, 33>>,
    <<-986733, -1, 0, -1>>, <<-986733, 2147483647, 0, 2147483647>>, <<-986733, MinInt, 0, MinInt>>,
    <<5304723, 0, 0, 0>>, <<5304723, 5, 0, 5>>, <<5304723, 33, 0, 1>>,
    <<5304723, -1, 0, 5>>, <<5304723, 2147483647, 0, 5>>, <<5304723, MinInt, 0, 0>>,
    <<-2147421805, 0, 0, 0>>, <<-2147421805, 5, 0, 0>>, <<-2147421805, 33, 0, 0>>,
    <<-2147421805, -1, 0, -2048>>, <<-2147421805, 2147483647, 0, 2147481600>>, <<-2147421805, MinInt, 0, MinInt>>,
    <<2146496915, 0, 0, 0>>, <<2146496915, 5, 0, 5>>, <<2146496915, 33, 0, 33>>,
    <<2146496915, -1, 0, 2047>>, <<2146496915, 2147483647, 0, 2047>>, <<2146496915, MinInt, 0, 0>>,
    <<37267, 0, 0, 0>>, <<37267, 5, 0, 5>>, <<37267, 33, 0, 33>>,
    <<37267, -1, 0, -1>>, <<37267, 2147483647, 0, 2147483647>>, <<37267, MinInt, 0, MinInt>>,
    <<1085843, 0, 0, 0>>, <<1085843, 5, 0, 10>>, <<1085843, 33, 0, 66>>,
    <<1085843, -1, 0, -2>>, <<1085843, 2147483647, 0, -2>>, <<1085843, MinInt, 0, 0>>,
    <<32543123, 0, 0, 0>>, <<32543123, 5, 0, MinInt>>, <<32543123, 33, 0, MinInt>>,
    <<32543123, -1, 0, MinInt>>, <<32543123, 2147483647, 0, MinInt>>, <<32543123, MinInt, 0, 0>>,
    <<53651, 0, 0, 0>>, <<53651, 5, 0, 5>>, <<53651, 33, 0, 33>>,
    <<53651, -1, 0, -1>>, <<53651, 2147483647, 0, 2147483647>>, <<53651, MinInt, 0, MinInt>>,
    <<1102227, 0, 0, 0>>, <<1102227, 5, 0, 2>>, <<1102227, 33, 0, 16>>,
    <<1102227, -1, 0, 2147483647>>, <<1102227, 2147483647, 0, 1073741823>>, <<1102227, MinInt, 0, 1073741824>>,
    <<32559507, 0, 0, 0>>, <<32559507, 5, 0, 0>>, <<32559507, 33, 0, 0>>,
    <<32559507, -1, 0, 1>>, <<32559507, 2147483647, 0, 0>>, <<32559507, MinInt, 0, 1>>,
    <<1073795475, 0, 0, 0>>, <<1073795475, 5, 0, 5>>, <<1073795475, 33, 0, 33>>,
    <<1073795475, -1, 0, -1>>, <<1073795475, 2147483647, 0, 2147483647>>, <<1073795475, MinInt, 0, MinInt>>,
    <<1074844051, 0, 0, 0>>, <<1074844051, 5, 0, 2>>, <<1074844051, 33, 0, 16>>,
    <<1074844051, -1, 0, -1>>, <<1074844051, 2147483647, 0, 1073741823>>, <<1074844051, MinInt, 0, -1073741824>>,
    <<1106301331, 0, 0, 0>>, <<1106301331, 5, 0, 0>>, <<1106301331, 33, 0, 0>>,
    <<1106301331, -1, 0, -1>>, <<1106301331, 2147483647, 0, 0>>, <<1106301331, MinInt, 0, -1>> }

AluExpected(w, a, b) == (CHOOSE t \in AluCases : t[1] = w /\ t[2] = a /\ t[3] = b)[4]

AluRegs(a, b) == [ZeroRegs EXCEPT ![1] = a, ![2] = b]

\* a reference model about to execute one ALU instruction at address 0 with
\* x1 = a and x2 = b
InitAlu ==
    /\ rtl_clk = 0 /\ rtl_rst = 0 /\ rtl_pc = 0 /\ rtl_regs = ZeroRegs
    /\ rtl_dmem = ZeroWords
    /\ sim_time = 0 /\ tests_passed = 0 /\ tests_failed = 0 /\ cycles_run = 0
    /\ pc = "alu" /\ caller = "none" /\ cycles = 1
    /\ i = 0 /\ reset_i = 0 /\ all_match = TRUE
    /\ num_tests = 1 /\ tests_started = 1 /\ exit_status = -1 /\ suite = "any"
    /\ mismatches = {} /\ reported_cycle = -1 /\ log = <<>> /\ oob = {}
    /\ rounds_total = 0
    /\ \E t \in AluCases :
         /\ program = <<t[1]>>
         /\ rtl_imem = LoadImem(ZeroWords, <<t[1]>>)
         /\ ref_mem = LoadRef(NopImage, <<t[1]>>)
         /\ ref = [riscv_init EXCEPT !.regs = AluRegs(t[2], t[3])]
         /\ query_result = <<"alu", t[2], t[3]>>

AluStep ==
    /\ pc = "alu" /\ i = 0
    /\ LET r == riscv_step(ref, ref_mem)
       IN  ref' = r.cpu /\ ref_mem' = r.mem
    /\ i' = 1
    /\ UNCHANGED <<rtl_vars, counter_vars, pc, caller, program, cycles, reset_i, all_match,
                   main_vars, out_vars, log>>

SpecAlu == InitAlu /\ [][AluStep]_vars

\* C13: one step of the reference model over an ALU instruction (register or
\* immediate form) sets the destination register to the operation's result
\* modulo 2^32, advances PC by exactly 4, leaves every other register, the
\* memory and the halted flag unchanged, and never halts on overflow.
C13_AluStep ==
    (pc = "alu" /\ i = 1) =>
        LET w == program[1]
            a == query_result[2]
            b == query_result[3]
        IN  /\ ref.regs[Rd(w)] = AluExpected(w, a, b)
            /\ \A r \in 0 .. (NUM_REGS - 1) : r # Rd(w) => ref.regs[r] = AluRegs(a, b)[r]
            /\ ref.pc = 4
            /\ ~ref.halted
            /\ ref_mem = LoadRef(NopImage, program)

\* add x3, x1, x2 with x1 = x2 = 0x7FFFFFFF has wrapped to -2
C13_Witness ==
    /\ pc = "alu" /\ i = 1 /\ program = <<2130355>>
    /\ query_result = <<"alu", 2147483647, 2147483647>>
    /\ ref.regs[3] = -2 /\ ~ref.halted

\* ------------------------------------------------------ the five tests of main
\* main: a fresh Testbench about to run its five tests in order
InitMain ==
    /\ rtl_clk = 0 /\ rtl_rst = 0 /\ rtl_pc = 0
    /\ rtl_regs = ZeroRegs /\ rtl_dmem = ZeroWords /\ rtl_imem = ZeroWords
    /\ ref_mem = NopImage /\ ref = riscv_init
    /\ sim_time = 0 /\ tests_passed = 0 /\ tests_failed = 0 /\ cycles_run = 0
    /\ pc = "main" /\ caller = "none" /\ program = <<>> /\ cycles = 0
    /\ i = 0 /\ reset_i = 0 /\ all_match = TRUE
    /\ num_tests = Len(MainTests) /\ tests_started = 0 /\ exit_status = -1
    /\ suite = "main"
    /\ mismatches = {} /\ reported_cycle = -1 /\ log = <<>> /\ oob = {}
    /\ query_result = <<"none", 0, 0>> /\ rounds_total = 0

SpecMain == InitMain /\ [][Next]_vars

\* the registers after the first k instructions of p executed in order from
\* the all-zero state
RECURSIVE SeqRegs(_, _)
SeqRegs(p, k) ==
    IF k = 0 THEN ZeroRegs
    ELSE Exec(p[k], 4 * (k - 1), SeqRegs(p, k - 1), [a \in 0 .. (MEM_SIZE - 1) |-> 0],
              MEM_SIZE).regs

\* the reference model has been reinitialized in the current test
RefStarted == Count("ref_init") = 1

\* the current test has run all its n rounds
RanAllRounds == TestOver /\ Count("step") = Len(program)

\* C14 (violated: main's third word of the logical program, 0x002071b3, is
\* and x3, x0, x2, so x3 = 0): a straight-line program of n ALU instructions
\* run by runTest for n rounds leaves the reference model at PC = 4n with the
\* registers of sequential execution from the all-zero state; the add program
\* gives x1 = 5, x2 = 3, x3 = 8, PC = 16, the sub program x3 = 7, the logical
\* program x3 = 240, x4 = 255, x5 = 15, the shift program x2 = 32, x3 = 2.
C14_EndToEnd ==
    /\ RefStarted =>
          /\ Count("step") <= Len(program)
          /\ ref.pc = 4 * Count("step")
          /\ ref.regs = SeqRegs(program, Count("step"))
          /\ ~ref.halted
    /\ (TestOver /\ all_match) => RanAllRounds
    /\ (RanAllRounds /\ program = test_add) =>
          (ref.regs[1] = 5 /\ ref.regs[2] = 3 /\ ref.regs[3] = 8 /\ ref.pc = 16)
    /\ (RanAllRounds /\ program = test_sub) => ref.regs[3] = 7
    /\ (RanAllRounds /\ program = test_logic) =>
          (ref.regs[3] = 240 /\ ref.regs[4] = 255 /\ ref.regs[5] = 15)
    /\ (RanAllRounds /\ program = test_shift) => (ref.regs[2] = 32 /\ ref.regs[3] = 2)

\* ------------------------------------------------- steps in the padded region
\* the reference model is about to step with its PC at a word slot at or past
\* the end of the loaded program
PaddedStep ==
    /\ pc = "ref_step" /\ ~ref.halted
    /\ ref.pc >= 4 * Len(program) /\ ref.pc <= MEM_SIZE - 4

\* the step leaves the registers, the memory and the halted flag as they were
RegsMemKept == ref'.regs = ref.regs /\ ref_mem' = ref_mem /\ ref'.halted = ref.halted

\* C15 (violated: the reference memory keeps an earlier program's words past
\* the end of a shorter one, and a NOP advances the PC): a step of the
\* reference model whose PC points into the padded region leaves the
\* architectural state, PC, registers and memory, unchanged.
C15_PaddedNoChange == [][PaddedStep => (ref'.pc = ref.pc /\ RegsMemKept)]_vars

\* the part of C15 about registers and memory alone, violated as well
C15_PaddedRegsMem == [][PaddedStep => RegsMemKept]_vars

\* ------------------------------------------------------- halting programs
\* a fresh Testbench about to run tests whose programs halt the reference model
InitHalt ==
    /\ rtl_clk = 0 /\ rtl_rst = 0 /\ rtl_pc = 0
    /\ rtl_regs = ZeroRegs /\ rtl_dmem = ZeroWords /\ rtl_imem = ZeroWords
    /\ ref_mem = NopImage /\ ref = riscv_init
    /\ sim_time = 0 /\ tests_passed = 0 /\ tests_failed = 0 /\ cycles_run = 0
    /\ pc = "main" /\ caller = "none" /\ program = <<>> /\ cycles = 0
    /\ i = 0 /\ reset_i = 0 /\ all_match = TRUE
    /\ num_tests \in 1 .. MaxTests /\ tests_started = 0 /\ exit_status = -1
    /\ suite = "halt"
    /\ mismatches = {} /\ reported_cycle = -1 /\ log = <<>> /\ oob = {}
    /\ query_result = <<"none", 0, 0>> /\ rounds_total = 0

SpecHalt == InitHalt /\ [][Next]_vars

\* an illegal opcode has halted the reference model at the offending address
C16_IllegalHalts ==
    (RefStarted /\ program = ProgIllegal /\ Count("step") = 2) =>
        (ref.halted /\ ref.pc = 4 /\ ref.regs = [ZeroRegs EXCEPT ![1] = 5])

\* while halted, nothing but the reinitialization in reset() changes the model
C16_HaltedFrame ==
    ref.halted =>
        /\ pc = "ref_step" => (ref' = ref /\ ref_mem' = ref_mem)
        /\ ref' # ref => (pc = "reset_ref_init" /\ ref' = riscv_init)

\* C16: once the reference model is halted, every further step() leaves PC,
\* registers, memory and the halted flag unchanged, and only the
\* reinitialization of reset() leaves the halted state.
C16_HaltedNoOp == [](C16_IllegalHalts) /\ [][C16_HaltedFrame]_vars

\* the second step of a test found the model already halted by the first
C16_Witness ==
    /\ pc = "compare" /\ ref.halted /\ Count("step") = 2 /\ program = ProgEcall
    /\ tests_started = 2

\* --------------------------------------------------------- the state dumps
\* runTest has returned
TestReturned == pc \in {"main", "exited"} /\ tests_started >= 1

\* C17: every runTest ends with a state dump that is the last event of the
\* test and follows the PASS/FAIL banner; a failed test has dumped exactly
\* twice, once right after the failing comparison and once at the end, and a
\* passed test exactly once.
C17_FinalDump ==
    /\ TestReturned =>
          LET n == Len(log)
          IN  /\ n >= 2
              /\ log[n] = Ev("dump", 0, 0)
              /\ log[n - 1][1] \in {"PASS", "FAIL"}
              /\ Count("PASS") + Count("FAIL") = 1
              /\ log[n - 1][1] = "PASS" => Count("dump") = 1
              /\ log[n - 1][1] = "FAIL" =>
                    /\ Count("dump") = 2
                    /\ n >= 4
                    /\ log[n - 2] = Ev("dump", 0, 0)
                    /\ log[n - 3][1] = "compare" /\ log[n - 3][3] = 0
    /\ ~TestReturned => (Count("dump") <= 1 /\ (Count("dump") = 1 => ~all_match))

\* a failed test after a passed one has returned with its two dumps
C17_Witness ==
    /\ pc = "main" /\ tests_started = 2 /\ tests_passed = 1
    /\ Count("FAIL") = 1 /\ Count("dump") = 2

\* ------------------------------------------------------ the loaded image
\* word indices written by loadProgram(p) in both targets
LoadedIdx(p) == 0 .. ((IF Len(p) < MEM_WORDS THEN Len(p) ELSE MEM_WORDS) - 1)

\* C18: right after loadProgram(p), for every word index k < min(|p|, 1024)
\* the hardware instruction store holds p[k] at index k and the reference
\* memory holds the same word at bytes 4k .. 4k+3, least significant byte
\* first, so the little-endian decoding of the reference bytes is the word of
\* the hardware store.
C18_LoadedImage ==
    pc = "reset" =>
        /\ \A k \in LoadedIdx(program) :
              LET w == program[k + 1]
              IN  /\ rtl_imem[k] = w
                  /\ ref_mem[4 * k] = w % 256
                  /\ ref_mem[4 * k + 1] = (w \div 256) % 256
                  /\ ref_mem[4 * k + 2] = (w \div 65536) % 256
                  /\ ref_mem[4 * k + 3] = (w \div 16777216) % 256
                  /\ RefWord(ref_mem, k) = rtl_imem[k]
        /\ program = ProgAdd =>
              /\ <<ref_mem[0], ref_mem[1], ref_mem[2], ref_mem[3]>> = <<147, 0, 80, 0>>
              /\ <<ref_mem[8], ref_mem[9], ref_mem[10], ref_mem[11]>> = <<179, 129, 32, 0>>

\* the 1025-word program has been loaded over a shorter one
C18_Witness ==
    /\ pc = "reset" /\ tests_started = 2 /\ Len(program) > MEM_WORDS
    /\ rtl_imem[MEM_WORDS - 1] = program[MEM_WORDS]
    /\ RefWord(ref_mem, MEM_WORDS - 1) = program[MEM_WORDS]

\* ------------------------------------------------- the image across reset()
\* control is inside reset()
InReset ==
    \/ pc \in {"reset", "reset_loop", "reset_inc", "reset_deassert", "reset_clr_regs",
               "reset_clr_dmem", "reset_ref_init"}
    \/ pc \in {"tick_hi", "tick_lo"} /\ caller = "reset"

\* the first round of the current test is about to clock the hardware
FirstRound == pc = "tick_hi" /\ caller = "round" /\ i = 0

C19_ResetFrame == InReset => (rtl_imem' = rtl_imem /\ ref_mem' = ref_mem)

C19_ImageAtFirstRound ==
    /\ InReset => (log[1][1] = "load" /\ Count("load") = 1)
    /\ FirstRound =>
          /\ log[1][1] = "load" /\ log[2] = Ev("rst", 1, 0) /\ Count("load") = 1
          /\ \A k \in LoadedIdx(program) :
                rtl_imem[k] = program[k + 1] /\ RefWord(ref_mem, k) = program[k + 1]
          /\ \A k \in 0 .. (MEM_WORDS - 1) : k >= Len(program) => rtl_imem[k] = NOP

\* C19: runTest loads the program before resetting, and reset() changes no
\* word of the hardware instruction store and no byte of the reference
\* memory, so at the first round both models hold the image written by the
\* preceding loadProgram.
C19_ResetKeepsProgram == [](C19_ImageAtFirstRound) /\ [][C19_ResetFrame]_vars

\* the first round of a second test, after a reset that cleared registers
C19_Witness ==
    /\ FirstRound /\ tests_started = 2 /\ program = ProgAdd
    /\ Count("clr_dmem") = 1 /\ Count("ref_init") = 1
    /\ RefWord(ref_mem, 2) = 2130355 /\ rtl_imem[2] = 2130355

\* ------------------------------------------------------ the cycle counter
\* rising clock edges of the current test so far
RisingEdges == Cardinality({k \in DOMAIN log : log[k][1] = "eval" /\ log[k][2] = 1})

\* cycles_run when the current test began
CyclesAtStart == log[1][2]

\* C20: cycles_run counts every hardware clock cycle, reset cycles included:
\* a test adds 5 plus the number of rounds it executed (the budget on a pass,
\* i + 1 when the first mismatch is at round i), and after a run of tests the
\* counter is 5 times the number of tests plus the number of compared rounds.
C20_CycleCount ==
    /\ (tests_started >= 1 /\ pc # "tick_lo") => cycles_run = CyclesAtStart + RisingEdges
    /\ (tests_started >= 1 /\ pc = "tick_lo") => cycles_run = CyclesAtStart + RisingEdges - 1
    /\ TestOver =>
          /\ cycles_run = CyclesAtStart + RESET_CYCLES + Count("compare")
          /\ all_match => Count("compare") = cycles
          /\ ~all_match => (Count("compare") = reported_cycle + 1 /\ reported_cycle = i)
    /\ pc \in {"main", "exited"} => cycles_run = RESET_CYCLES * tests_started + rounds_total

\* two tests are over, the first passed after 2 rounds, the second failed at
\* round 1
C20_Witness ==
    /\ pc = "main" /\ tests_started = 2 /\ tests_passed = 1 /\ tests_failed = 1
    /\ reported_cycle = 1 /\ cycles_run = 2 * RESET_CYCLES + 4 /\ rounds_total = 4

====
